---- MODULE Spec2Model ----
(***************************************************************************)
(* Model of embassy-boot's FirmwareUpdater (firmware_updater.rs).          *)
(*                                                                         *)
(* One action per public operation, in its asynchronous and its blocking   *)
(* form.  Every operation runs against a NOR flash device whose k-th flash *)
(* operation may fail (a flash error) or may never happen (power is lost   *)
(* just before it); the flash operations a call issued are recorded in a   *)
(* log.  A blocking call runs to its end in one step.  An async call is a  *)
(* future that is suspended at every flash operation it awaits: the action *)
(* of the operation polls it for the first time and Poll polls it again,   *)
(* one flash operation per poll, so that the call of a second task, which  *)
(* holds its own updater and handle to the device, can fall between two    *)
(* flash operations of the first.  Spec follows such callers too;          *)
(* SerialSpec follows the callers that keep one call in flight at a time.  *)
(* usize values are kept as two's-complement residues: a negative          *)
(* integer -k stands for 2^w - k, so wrapping arithmetic is exact for any  *)
(* word width w.  The "as u32" casts of offsets are the identity: the      *)
(* model is of a target whose usize has at most 32 bits.                   *)
(***************************************************************************)
EXTENDS Integers, Sequences, FiniteSets, TLC

\* ------------------------------------------------------------------ bounds
StatePages == 1      \* erase units in the state partition
DfuPages   == 1      \* erase units in the dfu partition

\* ------------------------------------------------------- program constants
BOOT_MAGIC  == 208   \* 0xD0
SWAP_MAGIC  == 240   \* 0xF0
ERASE_VALUE == 255   \* an erased NOR flash byte
WRITE_SIZE  == 2     \* F::WRITE_SIZE of the modelled device
ERASE_SIZE  == 4     \* F::ERASE_SIZE of the modelled device
PUBLICKEY_SERIALIZED_LENGTH == 32
SIGNATURE_SERIALIZED_LENGTH == 64
USIZE_MAX   == -1    \* 2^w - 1 as a two's-complement residue

\* ------------------------------------------------------------------ layout
StatePartition == [from |-> 0, to |-> StatePages * ERASE_SIZE]
DfuPartition   == [from |-> StatePartition.to,
                   to   |-> StatePartition.to + DfuPages * ERASE_SIZE]
FlashSize      == DfuPartition.to
Addrs          == 0 .. (FlashSize - 1)

\* Partition::len
PartitionLen(p) == p.to - p.from

\* ------------------------------------------------------- usize arithmetic
\* a <= b on unsigned words
ULe(a, b) == IF (a < 0) = (b < 0) THEN a <= b ELSE b < 0
ULt(a, b) == ULe(a, b) /\ a # b
\* a + b overflows the word
UAddOverflows(a, b) ==
    \/ a < 0 /\ b < 0
    \/ a < 0 /\ b >= 0 /\ a + b >= 0
    \/ a >= 0 /\ b < 0 /\ a + b >= 0
\* core::cmp::min on usize
UMin(a, b) == IF ULe(a, b) THEN a ELSE b

\* ------------------------------------------------------------ byte helpers
RECURSIVE BitAnd(_, _)
BitAnd(a, b) ==
    IF a = 0 \/ b = 0 THEN 0
    ELSE (a % 2) * (b % 2) + 2 * BitAnd(a \div 2, b \div 2)

\* slice::fill on a buffer of length n
Fill(n, v) == [i \in 1..n |-> v]

\* aligned.iter().any(|&b| b != v)
AnyNot(buf, v) == \E i \in 1..Len(buf) : buf[i] # v

\* the bytes [addr, addr+n) of a flash image
Bytes(fl, addr, n) == [i \in 1..n |-> fl[addr + i - 1]]

\* the image initially staged in the dfu partition
ImageByte(i) == (17 * (i + 1)) % 251
Image == [i \in 1..PartitionLen(DfuPartition) |-> ImageByte(i - 1)]
Prefix(s, n) == [i \in 1..n |-> s[i]]

\* --------------------------------------------------------- call execution
\* The running call: flash contents, the flash operations issued so far,
\* the scratch buffer, the control status ("run" until the call ends with
\* an error, a panic or a power loss) and the injected fault.
\* An async call is a future: every flash operation is awaited, and the
\* future hands control back to the executor there. It is polled one flash
\* operation at a time: replay holds the scratch buffer left by each of the
\* operations done in earlier polls, which are not issued again, yield
\* tells that the call is suspended ("pending") at the operation after the
\* next one, and bufs collects the scratch buffers for the next poll.
NoFault == [at |-> 0, kind |-> "none"]
\* a fault hits the k-th of the n flash operations a call issues
Faults(n) == {NoFault} \cup [at : 1..n, kind : {"error", "powerloss"}]

Ctx(fl, fault) ==
    [flash |-> fl, log |-> <<>>, buf |-> <<>>, status |-> "run",
     fault |-> fault, digest |-> <<>>, verdict |-> "none", value |-> "none",
     replay |-> <<>>, bufs |-> <<>>, yield |-> FALSE]

\* the context of one poll of a future that has done Len(bufs) operations
Resumed(fl, fault, bufs) ==
    [Ctx(fl, fault) EXCEPT !.replay = bufs, !.yield = TRUE]

\* F applied to the value of v, which is computed once
Bind(v, F(_)) == CHOOSE r \in {F(x) : x \in {v}} : TRUE

\* One flash operation of a partition: it is skipped when the call has
\* already ended or is suspended, taken from an earlier poll when it was
\* done there, lost when power fails first, and otherwise either fails
\* (flash unchanged, FirmwareUpdaterError::Flash) or takes effect.
FlashOp(c, e, accepted, fl2, buf2) ==
    IF c.status # "run" THEN c
    ELSE IF Len(c.log) < Len(c.replay)
    THEN [c EXCEPT !.log = Append(@, e), !.buf = c.replay[Len(c.log) + 1],
                   !.bufs = Append(@, c.replay[Len(c.log) + 1])]
    ELSE IF c.yield /\ Len(c.log) > Len(c.replay)
    THEN [c EXCEPT !.status = "pending"]
    ELSE IF c.fault.kind = "powerloss" /\ c.fault.at = Len(c.log) + 1
    THEN [c EXCEPT !.status = "lost"]
    ELSE IF (c.fault.kind = "error" /\ c.fault.at = Len(c.log) + 1) \/ ~accepted
    THEN [c EXCEPT !.log = Append(@, [e EXCEPT !.ok = FALSE]), !.status = "Flash"]
    ELSE [c EXCEPT !.log = Append(@, e), !.flash = fl2, !.buf = buf2,
                   !.bufs = Append(@, buf2)]

PartName(p) == IF p = StatePartition THEN "state" ELSE "dfu"

\* the window check of a partition and the range check of the device
InWindow(p, offset, n) ==
    /\ offset >= 0 /\ n >= 0
    /\ offset + n <= PartitionLen(p)
    /\ p.from + offset + n <= FlashSize

\* Partition::read / read_blocking
PartitionRead(c0, p, offset, n) ==
    Bind(c0, LAMBDA c :
        FlashOp(c,
                [op |-> "read", part |-> PartName(p), at |-> offset, len |-> n,
                 data |-> <<>>, ok |-> TRUE],
                InWindow(p, offset, n),
                c.flash,
                IF InWindow(p, offset, n)
                THEN Bytes(c.flash, p.from + offset, n) ELSE <<>>))

\* NOR programming clears bits only
Programmed(fl, addr, data) ==
    [a \in Addrs |-> IF a >= addr /\ a < addr + Len(data)
                     THEN BitAnd(fl[a], data[a - addr + 1]) ELSE fl[a]]

\* Partition::write / write_blocking
PartitionWrite(c0, p, offset, data) ==
    Bind(c0, LAMBDA c :
        FlashOp(c,
                [op |-> "write", part |-> PartName(p), at |-> offset,
                 len |-> Len(data), data |-> data, ok |-> TRUE],
                /\ InWindow(p, offset, Len(data))
                /\ (p.from + offset) % WRITE_SIZE = 0
                /\ Len(data) % WRITE_SIZE = 0,
                Programmed(c.flash, p.from + offset, data),
                c.buf))

Erased(fl, from, to) ==
    [a \in Addrs |-> IF a >= from /\ a < to THEN ERASE_VALUE ELSE fl[a]]

\* Partition::erase / erase_blocking
PartitionErase(c0, p, from, to) ==
    Bind(c0, LAMBDA c :
        FlashOp(c,
                [op |-> "erase", part |-> PartName(p), at |-> from,
                 len |-> to - from, data |-> <<>>, ok |-> TRUE],
                /\ from >= 0 /\ from <= to
                /\ InWindow(p, from, to - from)
                /\ (p.from + from) % ERASE_SIZE = 0
                /\ (p.from + to) % ERASE_SIZE = 0,
                Erased(c.flash, p.from + from, p.from + to),
                c.buf))

\* Partition::wipe / wipe_blocking
PartitionWipe(c0, p) ==
    Bind(c0, LAMBDA c :
        FlashOp(c,
                [op |-> "wipe", part |-> PartName(p), at |-> 0,
                 len |-> PartitionLen(p), data |-> <<>>, ok |-> TRUE],
                /\ p.from % ERASE_SIZE = 0
                /\ p.to % ERASE_SIZE = 0
                /\ p.to <= FlashSize,
                Erased(c.flash, p.from, p.to),
                c.buf))

\* a failed assert!/assert_eq!, or an overflow trap
Panic(c) == [c EXCEPT !.status = "panic"]

\* ----------------------------------------------------------- FirmwareUpdater
\* FirmwareUpdater::firmware_len
firmware_len == PartitionLen(DfuPartition)

\* FirmwareUpdater::get_state
get_state(c, alignedLen) ==
    Bind(PartitionRead(c, StatePartition, 0, alignedLen), LAMBDA c1 :
        IF c1.status # "run" THEN c1
        ELSE IF ~AnyNot(c1.buf, SWAP_MAGIC)
        THEN [c1 EXCEPT !.value = "Swap"]
        ELSE [c1 EXCEPT !.value = "Boot"])

\* set_magic with the target magic already in the buffer at the first write
set_magic_FillMagicFirst(c, alignedLen, magic) ==
    Bind(PartitionRead(c, StatePartition, 0, alignedLen), LAMBDA c1 :
        IF c1.status # "run" THEN c1
        ELSE IF AnyNot(c1.buf, magic)
        THEN LET c2 == PartitionWrite(c1, StatePartition, 0, Fill(alignedLen, magic))
                 c3 == PartitionWipe(c2, StatePartition)
                 c4 == PartitionWrite(c3, StatePartition, 0, Fill(alignedLen, magic))
             IN  c4
        ELSE c1)

\* set_magic without the wipe between the two writes
set_magic_NoWipe(c, alignedLen, magic) ==
    Bind(PartitionRead(c, StatePartition, 0, alignedLen), LAMBDA c1 :
        IF c1.status # "run" THEN c1
        ELSE IF AnyNot(c1.buf, magic)
        THEN LET c2 == PartitionWrite(c1, StatePartition, 0, Fill(alignedLen, 0))
                 c4 == PartitionWrite(c2, StatePartition, 0, Fill(alignedLen, magic))
             IN  c4
        ELSE c1)

\* set_magic without the comparison of the block with the target magic
set_magic_NoCheck(c, alignedLen, magic) ==
    Bind(PartitionRead(c, StatePartition, 0, alignedLen), LAMBDA c1 :
        IF c1.status # "run" THEN c1
        ELSE LET c2 == PartitionWrite(c1, StatePartition, 0, Fill(alignedLen, 0))
                 c3 == PartitionWipe(c2, StatePartition)
                 c4 == PartitionWrite(c3, StatePartition, 0, Fill(alignedLen, magic))
             IN  c4)

\* set_magic without the write of the zero block
set_magic_NoZeroWrite(c, alignedLen, magic) ==
    Bind(PartitionRead(c, StatePartition, 0, alignedLen), LAMBDA c1 :
        IF c1.status # "run" THEN c1
        ELSE IF AnyNot(c1.buf, magic)
        THEN LET c3 == PartitionWipe(c1, StatePartition)
                 c4 == PartitionWrite(c3, StatePartition, 0, Fill(alignedLen, magic))
             IN  c4
        ELSE c1)

\* FirmwareUpdater::set_magic
set_magic(c, alignedLen, magic) ==
    Bind(PartitionRead(c, StatePartition, 0, alignedLen), LAMBDA c1 :
        IF c1.status # "run" THEN c1
        ELSE IF AnyNot(c1.buf, magic)
        THEN LET c2 == PartitionWrite(c1, StatePartition, 0, Fill(alignedLen, 0))
                 c3 == PartitionWipe(c2, StatePartition)
                 c4 == PartitionWrite(c3, StatePartition, 0, Fill(alignedLen, magic))
             IN  c4
        ELSE c1)

\* FirmwareUpdater::mark_updated
mark_updated(c, alignedLen) ==
    IF alignedLen # WRITE_SIZE THEN Panic(c)
    ELSE set_magic(c, alignedLen, SWAP_MAGIC)

\* mark_booted with the magic of mark_updated
mark_booted_SwapMagic(c, alignedLen) ==
    IF alignedLen # WRITE_SIZE THEN Panic(c)
    ELSE set_magic(c, alignedLen, SWAP_MAGIC)

\* FirmwareUpdater::mark_booted
mark_booted(c, alignedLen) ==
    IF alignedLen # WRITE_SIZE THEN Panic(c)
    ELSE set_magic(c, alignedLen, BOOT_MAGIC)

\* get_state_blocking that reports Swap when some byte is SWAP_MAGIC
get_state_blocking_AnySwap(c, alignedLen) ==
    Bind(PartitionRead(c, StatePartition, 0, alignedLen), LAMBDA c1 :
        IF c1.status # "run" THEN c1
        ELSE IF \E i \in 1..Len(c1.buf) : c1.buf[i] = SWAP_MAGIC
        THEN [c1 EXCEPT !.value = "Swap"]
        ELSE [c1 EXCEPT !.value = "Boot"])

\* FirmwareUpdater::get_state_blocking
get_state_blocking(c, alignedLen) ==
    Bind(PartitionRead(c, StatePartition, 0, alignedLen), LAMBDA c1 :
        IF c1.status # "run" THEN c1
        ELSE IF ~AnyNot(c1.buf, SWAP_MAGIC)
        THEN [c1 EXCEPT !.value = "Swap"]
        ELSE [c1 EXCEPT !.value = "Boot"])

\* set_magic_blocking with the target magic already in the buffer at the first write
set_magic_blocking_FillMagicFirst(c, alignedLen, magic) ==
    Bind(PartitionRead(c, StatePartition, 0, alignedLen), LAMBDA c1 :
        IF c1.status # "run" THEN c1
        ELSE IF AnyNot(c1.buf, magic)
        THEN LET c2 == PartitionWrite(c1, StatePartition, 0, Fill(alignedLen, magic))
                 c3 == PartitionWipe(c2, StatePartition)
                 c4 == PartitionWrite(c3, StatePartition, 0, Fill(alignedLen, magic))
             IN  c4
        ELSE c1)

\* set_magic_blocking that wipes before it writes the zero block
set_magic_blocking_WipeFirst(c, alignedLen, magic) ==
    Bind(PartitionRead(c, StatePartition, 0, alignedLen), LAMBDA c1 :
        IF c1.status # "run" THEN c1
        ELSE IF AnyNot(c1.buf, magic)
        THEN LET c2 == PartitionWipe(c1, StatePartition)
                 c3 == PartitionWrite(c2, StatePartition, 0, Fill(alignedLen, 0))
                 c4 == PartitionWrite(c3, StatePartition, 0, Fill(alignedLen, magic))
             IN  c4
        ELSE c1)

\* FirmwareUpdater::set_magic_blocking
set_magic_blocking(c, alignedLen, magic) ==
    Bind(PartitionRead(c, StatePartition, 0, alignedLen), LAMBDA c1 :
        IF c1.status # "run" THEN c1
        ELSE IF AnyNot(c1.buf, magic)
        THEN LET c2 == PartitionWrite(c1, StatePartition, 0, Fill(alignedLen, 0))
                 c3 == PartitionWipe(c2, StatePartition)
                 c4 == PartitionWrite(c3, StatePartition, 0, Fill(alignedLen, magic))
             IN  c4
        ELSE c1)

\* FirmwareUpdater::mark_updated_blocking
mark_updated_blocking(c, alignedLen) ==
    IF alignedLen # WRITE_SIZE THEN Panic(c)
    ELSE set_magic_blocking(c, alignedLen, SWAP_MAGIC)

\* FirmwareUpdater::mark_booted_blocking
mark_booted_blocking(c, alignedLen) ==
    IF alignedLen # WRITE_SIZE THEN Panic(c)
    ELSE set_magic_blocking(c, alignedLen, BOOT_MAGIC)

\* ------------------------------------------------------------ verification
\* The verifier is abstract: a public key is its length and the key pair it
\* belongs to, a signature its length, its signer and the message it was
\* made over, and the SHA-512 digest of a message is the message itself
\* (collision-free).
NoKey == [len |-> 0, id |-> "none"]
NoSig == [len |-> 0, by |-> "none", over |-> <<>>]

\* PublicKey::from_bytes / PublicKey::try_from succeed
KeyParses(pk) == pk.len = PUBLICKEY_SERIALIZED_LENGTH /\ pk.id # "invalid"
\* Signature::from_bytes / Signature::try_from succeed
SigParses(sig) == sig.len = SIGNATURE_SERIALIZED_LENGTH
\* PublicKey::verify
Verifies(pk, digest, sig) == sig.by = pk.id /\ sig.over = digest

SignatureError(c) == [c EXCEPT !.status = "Signature", !.verdict = "reject"]

\* the digest loop over the inclusive range 0..=update_len
RECURSIVE DigestLoop_Inclusive(_, _, _, _)
DigestLoop_Inclusive(c, offset, update_len, alignedLen) ==
    IF ~ULe(offset, update_len) THEN c
    ELSE Bind(PartitionRead(c, DfuPartition, offset, alignedLen), LAMBDA c1 :
             LET len == UMin(update_len - offset, alignedLen)
             IN  IF c1.status # "run" THEN c1
                 ELSE DigestLoop_Inclusive([c1 EXCEPT !.digest = @ \o Prefix(c1.buf, len)],
                                           offset + alignedLen, update_len, alignedLen))

\* the digest loop feeding the whole buffer after every read
RECURSIVE DigestLoop_FullBuffer(_, _, _, _)
DigestLoop_FullBuffer(c, offset, update_len, alignedLen) ==
    IF ~ULt(offset, update_len) THEN c
    ELSE Bind(PartitionRead(c, DfuPartition, offset, alignedLen), LAMBDA c1 :
             IF c1.status # "run" THEN c1
             ELSE DigestLoop_FullBuffer([c1 EXCEPT !.digest = @ \o c1.buf],
                                        offset + alignedLen, update_len, alignedLen))

\* for offset in (0.._update_len).step_by(_aligned.len()) { read; digest.update }
RECURSIVE DigestLoop(_, _, _, _)
DigestLoop(c, offset, update_len, alignedLen) ==
    IF ~ULt(offset, update_len) THEN c
    ELSE Bind(PartitionRead(c, DfuPartition, offset, alignedLen), LAMBDA c1 :
             LET len == UMin(update_len - offset, alignedLen)
             IN  IF c1.status # "run" THEN c1
                 ELSE DigestLoop([c1 EXCEPT !.digest = @ \o Prefix(c1.buf, len)],
                                 offset + alignedLen, update_len, alignedLen))

\* the ed25519-dalek block of verify_and_mark_updated(_blocking)
VerifyDalek(c, pk, sig, update_len, alignedLen) ==
    IF ~KeyParses(pk) THEN SignatureError(c)
    ELSE IF ~SigParses(sig) THEN SignatureError(c)
    ELSE Bind(DigestLoop([c EXCEPT !.digest = <<>>], 0, update_len, alignedLen), LAMBDA c1 :
             IF c1.status # "run" THEN c1
             ELSE IF Verifies(pk, c1.digest, sig)
             THEN [c1 EXCEPT !.verdict = "accept"]
             ELSE SignatureError(c1))

\* the ed25519-salty block of verify_and_mark_updated(_blocking)
VerifySalty(c, pk, sig, update_len, alignedLen) ==
    IF pk.len # PUBLICKEY_SERIALIZED_LENGTH THEN SignatureError(c)
    ELSE IF ~KeyParses(pk) THEN SignatureError(c)
    ELSE IF sig.len # SIGNATURE_SERIALIZED_LENGTH THEN SignatureError(c)
    ELSE IF ~SigParses(sig) THEN SignatureError(c)
    ELSE Bind(DigestLoop([c EXCEPT !.digest = <<>>], 0, update_len, alignedLen), LAMBDA c1 :
             IF c1.status # "run" THEN c1
             ELSE IF Verifies(pk, c1.digest, sig)
             THEN [c1 EXCEPT !.verdict = "accept"]
             ELSE SignatureError(c1))

\* the cfg(feature = ...) blocks compiled into a build, in source order
Backends(c, features, pk, sig, update_len, alignedLen) ==
    Bind(IF "ed25519-dalek" \in features
         THEN VerifyDalek(c, pk, sig, update_len, alignedLen) ELSE c, LAMBDA c1 :
        IF "ed25519-salty" \in features /\ c1.status = "run"
        THEN VerifySalty(c1, pk, sig, update_len, alignedLen) ELSE c1)

\* verify_and_mark_updated with the verifier's error dropped instead of returned
verify_and_mark_updated_IgnoreReject(c, build, pk, sig, update_len, alignedLen) ==
    IF alignedLen # WRITE_SIZE THEN Panic(c)
    ELSE IF ~ULe(update_len, PartitionLen(DfuPartition)) THEN Panic(c)
    ELSE Bind(Backends(c, build.features, pk, sig, update_len, alignedLen), LAMBDA c1 :
             IF c1.status \notin {"run", "Signature"} THEN c1
             ELSE set_magic([c1 EXCEPT !.status = "run"], alignedLen, SWAP_MAGIC))

\* FirmwareUpdater::verify_and_mark_updated
verify_and_mark_updated(c, build, pk, sig, update_len, alignedLen) ==
    IF alignedLen # WRITE_SIZE THEN Panic(c)
    ELSE IF ~ULe(update_len, PartitionLen(DfuPartition)) THEN Panic(c)
    ELSE Bind(Backends(c, build.features, pk, sig, update_len, alignedLen), LAMBDA c1 :
             IF c1.status # "run" THEN c1
             ELSE set_magic(c1, alignedLen, SWAP_MAGIC))

\* verify_and_mark_updated_blocking that returns without the transition
verify_and_mark_updated_blocking_NoMark(c, build, pk, sig, update_len, alignedLen) ==
    LET end == DfuPartition.from + update_len
    IN  IF build.overflow_checks /\ UAddOverflows(DfuPartition.from, update_len)
        THEN Panic(c)
        ELSE IF alignedLen # WRITE_SIZE THEN Panic(c)
        ELSE IF ~ULe(end, DfuPartition.to) THEN Panic(c)
        ELSE Backends(c, build.features, pk, sig, update_len, alignedLen)

\* FirmwareUpdater::verify_and_mark_updated_blocking
verify_and_mark_updated_blocking(c, build, pk, sig, update_len, alignedLen) ==
    LET end == DfuPartition.from + update_len
    IN  IF build.overflow_checks /\ UAddOverflows(DfuPartition.from, update_len)
        THEN Panic(c)
        ELSE IF alignedLen # WRITE_SIZE THEN Panic(c)
        ELSE IF ~ULe(end, DfuPartition.to) THEN Panic(c)
        ELSE Bind(Backends(c, build.features, pk, sig, update_len, alignedLen), LAMBDA c1 :
                 IF c1.status # "run" THEN c1
                 ELSE set_magic_blocking(c1, alignedLen, SWAP_MAGIC))

\* ------------------------------------------------------------------ staging
\* FirmwareWriter::write_block / write_block_blocking
RECURSIVE WriteBlock(_, _, _, _)
WriteBlock(c0, offset, data, block_size) ==
    Bind(c0, LAMBDA c :
        IF block_size = 0 THEN Panic(c)
        ELSE IF Len(data) = 0 \/ c.status # "run" THEN c
        ELSE LET n == IF Len(data) < block_size THEN Len(data) ELSE block_size
             IN  WriteBlock(PartitionWrite(c, DfuPartition, offset, SubSeq(data, 1, n)),
                            offset + n, SubSeq(data, n + 1, Len(data)), block_size))

\* write_firmware that erases after it has written
write_firmware_WriteFirst(c, build, offset, data, block_size) ==
    IF ~(Len(data) >= ERASE_SIZE) THEN Panic(c)
    ELSE IF build.overflow_checks /\ UAddOverflows(offset, Len(data)) THEN Panic(c)
    ELSE Bind(WriteBlock(c, offset, data, block_size), LAMBDA c1 :
             IF c1.status # "run" THEN c1
             ELSE PartitionErase(c1, DfuPartition, offset, offset + Len(data)))

\* write_firmware that clips the data to the end of the dfu partition
write_firmware_Truncate(c, build, offset, data, block_size) ==
    LET n == IF offset >= 0 /\ offset < firmware_len /\ offset + Len(data) > firmware_len
             THEN firmware_len - offset ELSE Len(data)
    IN  IF ~(Len(data) >= ERASE_SIZE) THEN Panic(c)
        ELSE IF build.overflow_checks /\ UAddOverflows(offset, Len(data)) THEN Panic(c)
        ELSE Bind(PartitionErase(c, DfuPartition, offset, offset + n), LAMBDA c1 :
                 IF c1.status # "run" THEN c1
                 ELSE WriteBlock(c1, offset, SubSeq(data, 1, n), block_size))

\* FirmwareUpdater::write_firmware
write_firmware(c, build, offset, data, block_size) ==
    IF ~(Len(data) >= ERASE_SIZE) THEN Panic(c)
    ELSE IF build.overflow_checks /\ UAddOverflows(offset, Len(data)) THEN Panic(c)
    ELSE Bind(PartitionErase(c, DfuPartition, offset, offset + Len(data)), LAMBDA c1 :
             IF c1.status # "run" THEN c1
             ELSE WriteBlock(c1, offset, data, block_size))

\* prepare_update that wipes the state partition
prepare_update_WipeState(c) ==
    Bind(PartitionWipe(c, StatePartition), LAMBDA c1 :
        IF c1.status # "run" THEN c1
        ELSE [c1 EXCEPT !.value = "FirmwareWriter(dfu)"])

\* FirmwareUpdater::prepare_update
prepare_update(c) ==
    Bind(PartitionWipe(c, DfuPartition), LAMBDA c1 :
        IF c1.status # "run" THEN c1
        ELSE [c1 EXCEPT !.value = "FirmwareWriter(dfu)"])

\* write_firmware_blocking that writes although the erase failed
write_firmware_blocking_IgnoreEraseError(c, build, offset, data, block_size) ==
    IF ~(Len(data) >= ERASE_SIZE) THEN Panic(c)
    ELSE IF build.overflow_checks /\ UAddOverflows(offset, Len(data)) THEN Panic(c)
    ELSE Bind(PartitionErase(c, DfuPartition, offset, offset + Len(data)), LAMBDA c1 :
             IF c1.status \notin {"run", "Flash"} THEN c1
             ELSE WriteBlock([c1 EXCEPT !.status = "run"], offset, data, block_size))

\* FirmwareUpdater::write_firmware_blocking
write_firmware_blocking(c, build, offset, data, block_size) ==
    IF ~(Len(data) >= ERASE_SIZE) THEN Panic(c)
    ELSE IF build.overflow_checks /\ UAddOverflows(offset, Len(data)) THEN Panic(c)
    ELSE Bind(PartitionErase(c, DfuPartition, offset, offset + Len(data)), LAMBDA c1 :
             IF c1.status # "run" THEN c1
             ELSE WriteBlock(c1, offset, data, block_size))

\* prepare_update_blocking that hands out the writer although the wipe failed
prepare_update_blocking_WriterOnError(c) ==
    Bind(PartitionWipe(c, DfuPartition), LAMBDA c1 :
        IF c1.status \notin {"run", "Flash"} THEN c1
        ELSE [c1 EXCEPT !.status = "run", !.value = "FirmwareWriter(dfu)"])

\* FirmwareUpdater::prepare_update_blocking
prepare_update_blocking(c) ==
    Bind(PartitionWipe(c, DfuPartition), LAMBDA c1 :
        IF c1.status # "run" THEN c1
        ELSE [c1 EXCEPT !.value = "FirmwareWriter(dfu)"])

\* ------------------------------------------------------------ state machine
VARIABLES
    flash,   \* the contents of the flash device, one byte per address
    build,   \* the cargo features and the overflow-checks profile of the build
    call,    \* the call that has just ended and its outcome, or Idle
    hist,    \* "fresh", "booted", "updated": the block began as BOOT_MAGIC and
             \* every transition so far succeeded (the last one named); else "dirty"
    prev,    \* the transition the previous call performed successfully, or "none"
    tasks,   \* the async calls in flight, each suspended at a flash operation,
             \* oldest first
    serialized \* whether the caller keeps at most one call in flight on the
             \* device at a time

vars == <<flash, build, call, hist, prev, tasks, serialized>>

\* the tasks that hold a handle to the flash device and an updater
Callers == {"first", "second"}

Forms == {"async", "blocking"}
Other(form) == IF form = "async" THEN "blocking" ELSE "async"

\* byte values a state block may hold when the updater is created
Alphabet == {0, BOOT_MAGIC, SWAP_MAGIC, ERASE_VALUE}
\* scratch buffer lengths a caller passes
AlignedLens == {WRITE_SIZE, WRITE_SIZE + 1}
\* builds: _verify is implied by either backend and may be set alone
FeatureSets == {{}, {"_verify"}, {"_verify", "ed25519-dalek"},
                {"_verify", "ed25519-salty"},
                {"_verify", "ed25519-dalek", "ed25519-salty"}}
Builds == [features : FeatureSets, overflow_checks : BOOLEAN]

PublicKeys == {[len |-> PUBLICKEY_SERIALIZED_LENGTH, id |-> "A"],
               [len |-> PUBLICKEY_SERIALIZED_LENGTH, id |-> "B"],
               [len |-> PUBLICKEY_SERIALIZED_LENGTH - 1, id |-> "A"]}
\* signatures made with key A over a prefix of the staged image, and a short one
Signatures == {[len |-> SIGNATURE_SERIALIZED_LENGTH, by |-> "A",
                over |-> Prefix(Image, firmware_len - 1)],
               [len |-> SIGNATURE_SERIALIZED_LENGTH - 1, by |-> "A", over |-> Image]}
UpdateLens == {0, firmware_len - 1, firmware_len, firmware_len + 1, USIZE_MAX}
Offsets    == {0, ERASE_SIZE, USIZE_MAX - ERASE_SIZE + 1}
DataLens   == {ERASE_SIZE - 1, ERASE_SIZE, 2 * ERASE_SIZE}
BlockSizes == {WRITE_SIZE, ERASE_SIZE}

\* Serialized calls are followed with every argument, build and fault. A
\* caller that overlaps calls is followed in a release build without
\* verification or with the ed25519-dalek backend, on a device without
\* faults whose state block holds a magic, and it passes arguments that meet
\* the preconditions of the calls.
Pick(all, nominal) == IF serialized THEN all ELSE nominal
SomeAlignedLens == Pick(AlignedLens, {WRITE_SIZE})
SomePublicKeys  == Pick(PublicKeys, {k \in PublicKeys : KeyParses(k)})
SomeSignatures  == Pick(Signatures, {g \in Signatures : SigParses(g)})
SomeUpdateLens  == Pick(UpdateLens, {firmware_len - 1})
SomeOffsets     == Pick(Offsets, {0})
SomeDataLens    == Pick(DataLens, {ERASE_SIZE})
SomeBlockSizes  == Pick(BlockSizes, {WRITE_SIZE})
SomeBuilds      == Pick(Builds,
                        {b \in Builds : /\ ~b.overflow_checks
                                        /\ \/ b.features = {}
                                           \/ "ed25519-dalek" \in b.features})
SomeBlocks      == Pick([1..WRITE_SIZE -> Alphabet],
                        {Fill(WRITE_SIZE, v) : v \in {BOOT_MAGIC, SWAP_MAGIC}})
SomeFaults(n)   == Pick(Faults(n), {NoFault})

NoArgs == [aligned |-> 0, update_len |-> 0, key |-> NoKey, sig |-> NoSig,
           offset |-> 0, data |-> <<>>, block_size |-> 0]

\* the operation op of the updater, in the given form, on the arguments a
Exec(op, form, c, a) ==
    CASE op = "get_state" ->
           IF form = "async" THEN get_state(c, a.aligned)
           ELSE get_state_blocking(c, a.aligned)
      [] op = "mark_booted" ->
           IF form = "async" THEN mark_booted(c, a.aligned)
           ELSE mark_booted_blocking(c, a.aligned)
      [] op = "mark_updated" ->
           IF form = "async" THEN mark_updated(c, a.aligned)
           ELSE mark_updated_blocking(c, a.aligned)
      [] op = "verify_and_mark_updated" ->
           IF form = "async"
           THEN verify_and_mark_updated(c, build, a.key, a.sig, a.update_len, a.aligned)
           ELSE verify_and_mark_updated_blocking(c, build, a.key, a.sig, a.update_len, a.aligned)
      [] op = "write_firmware" ->
           IF form = "async" THEN write_firmware(c, build, a.offset, a.data, a.block_size)
           ELSE write_firmware_blocking(c, build, a.offset, a.data, a.block_size)
      [] op = "prepare_update" ->
           IF form = "async" THEN prepare_update(c) ELSE prepare_update_blocking(c)
      [] op = "firmware_len" -> [c EXCEPT !.value = firmware_len]

\* what a call returns: Ok, an error kind, "panic", or "lost" (power lost)
Outcome(c) == IF c.status = "run" THEN "Ok" ELSE c.status

Summary(c0) ==
    Bind(c0, LAMBDA c :
        [flash |-> c.flash, outcome |-> Outcome(c), value |-> c.value, log |-> c.log])

Idle == [op |-> "idle", form |-> "async", args |-> NoArgs, pre |-> <<>>,
         outcome |-> "none", value |-> "none", log |-> <<>>, verdict |-> "none",
         digest |-> <<>>, repeat |-> FALSE, alone |-> TRUE,
         twin |-> [flash |-> <<>>, outcome |-> "none", value |-> "none", log |-> <<>>]]

NextHist(h, op, outcome) ==
    IF h = "dirty" \/ op \in {"get_state", "firmware_len"} THEN h
    ELSE IF op = "mark_booted" /\ outcome = "Ok" THEN "booted"
    ELSE IF op = "mark_updated" /\ outcome = "Ok" THEN "updated"
    ELSE "dirty"

Transitions == {"mark_booted", "mark_updated", "verify_and_mark_updated"}

\* a call may start: nothing in the code keeps a second task, with its own
\* updater and handle to the device, from calling while a future is suspended
CanStart ==
    IF serialized THEN tasks = <<>> ELSE Len(tasks) < Cardinality(Callers)

\* the suspended calls, once another call has started beside them
Overlapped(ts) == [i \in 1..Len(ts) |-> [ts[i] EXCEPT !.alone = FALSE]]
Without(ts, i) == SubSeq(ts, 1, i - 1) \o SubSeq(ts, i + 1, Len(ts))

\* The state after a call of op, started on the flash contents pre, has
\* ended as r; t is what the other form of the same call does on pre with
\* the same fault, alone tells that no other call was in flight meanwhile,
\* and rest are the calls still suspended. A panic or a power loss restarts
\* the device, which drops them.
Record(op, form, a, pre, alone, r, t, rest) ==
    /\ flash' = r.flash
    /\ call' = [op |-> op, form |-> form, args |-> a, pre |-> pre,
                outcome |-> Outcome(r), value |-> r.value, log |-> r.log,
                verdict |-> r.verdict, digest |-> r.digest,
                repeat |-> (prev = op), alone |-> alone,
                twin |-> t]
    /\ hist' = IF serialized THEN NextHist(hist, op, Outcome(r)) ELSE "dirty"
    /\ prev' = IF serialized /\ op \in Transitions /\ Outcome(r) = "Ok"
               THEN op ELSE "none"
    /\ tasks' = IF Outcome(r) \in {"panic", "lost"} THEN <<>> ELSE rest
    /\ UNCHANGED <<build, serialized>>

\* A call that does not yield (a blocking form, or firmware_len): it runs
\* to its end (return, panic or power loss) on the flash device, with a
\* fault at any of the flash operations it issues.
Atomic(op, form, a) ==
    \E fault \in SomeFaults(Len(Exec(op, form, Ctx(flash, NoFault), a).log)) :
        \E r \in {Exec(op, form, Ctx(flash, fault), a)},
           t \in {Summary(Exec(op, Other(form), Ctx(flash, fault), a))} :
            Record(op, form, a, flash, tasks = <<>>, r, t, Overlapped(tasks))

\* the faults of one poll: they hit the flash operation the poll issues
PollFaults(t) ==
    IF Len(Exec(t.op, "async", Resumed(flash, NoFault, t.bufs), t.args).log) > Len(t.bufs)
    THEN {f \in SomeFaults(Len(t.bufs) + 1) : f.at \in {0, Len(t.bufs) + 1}}
    ELSE {NoFault}

\* One poll of the future t, the i-th of the calls in flight (a new call
\* when there is no i-th): it runs from the await it is suspended at through
\* one flash operation to the next await, where it is suspended again, or
\* to its end.
PollOnce(t, i) ==
    \E fault \in PollFaults(t) :
        \E r \in {Exec(t.op, "async", Resumed(flash, fault, t.bufs), t.args)} :
            IF r.status = "pending"
            THEN /\ flash' = r.flash
                 /\ tasks' = IF i > Len(tasks)
                             THEN Append(Overlapped(tasks), [t EXCEPT !.bufs = r.bufs])
                             ELSE [tasks EXCEPT ![i] = [t EXCEPT !.bufs = r.bufs]]
                 /\ UNCHANGED <<build, call, hist, prev, serialized>>
            ELSE \E tw \in {Summary(Exec(t.op, "blocking", Ctx(t.pre, fault), t.args))} :
                    Record(t.op, "async", t.args, t.pre, t.alone, r, tw,
                           IF i > Len(tasks) THEN Overlapped(tasks) ELSE Without(tasks, i))

\* One call of op: a blocking form runs to its end, an async form is
\* polled for the first time.
Step(op, form, a) ==
    IF form = "blocking" \/ op = "firmware_len"
    THEN Atomic(op, form, a)
    ELSE PollOnce([op |-> op, args |-> a, bufs |-> <<>>, pre |-> flash,
                   alone |-> (tasks = <<>>)],
                  Len(tasks) + 1)

GetState ==
    /\ call.op = "idle" /\ CanStart
    /\ \E form \in Forms, n \in SomeAlignedLens :
        Step("get_state", form, [NoArgs EXCEPT !.aligned = n])

MarkBooted ==
    /\ call.op = "idle" /\ CanStart
    /\ \E form \in Forms, n \in SomeAlignedLens :
        Step("mark_booted", form, [NoArgs EXCEPT !.aligned = n])

\* compiled only without the _verify feature
MarkUpdated ==
    /\ call.op = "idle" /\ CanStart
    /\ "_verify" \notin build.features
    /\ \E form \in Forms, n \in SomeAlignedLens :
        Step("mark_updated", form, [NoArgs EXCEPT !.aligned = n])

\* compiled only with the _verify feature
VerifyAndMarkUpdated ==
    /\ call.op = "idle" /\ CanStart
    /\ "_verify" \in build.features
    /\ \E form \in Forms, n \in SomeAlignedLens,
          pk \in SomePublicKeys, sig \in SomeSignatures, len \in SomeUpdateLens :
        Step("verify_and_mark_updated", form,
             [NoArgs EXCEPT !.aligned = n, !.key = pk, !.sig = sig, !.update_len = len])

WriteFirmware ==
    /\ call.op = "idle" /\ CanStart
    /\ \E form \in Forms, off \in SomeOffsets, n \in SomeDataLens, bs \in SomeBlockSizes :
        Step("write_firmware", form,
             [NoArgs EXCEPT !.offset = off, !.block_size = bs,
                            !.data = [i \in 1..n |-> ImageByte(off + i - 1)]])

PrepareUpdate ==
    /\ call.op = "idle" /\ CanStart
    /\ \E form \in Forms :
        Step("prepare_update", form, NoArgs)

\* firmware_len has a single form
FirmwareLen ==
    /\ call.op = "idle" /\ CanStart
    /\ Step("firmware_len", "async", NoArgs)

\* The caller takes the result (or the device restarts after a panic or a
\* power loss); nothing but the flash contents survives a call.
Return ==
    /\ call.op # "idle"
    /\ call' = Idle
    /\ UNCHANGED <<flash, build, hist, prev, tasks, serialized>>

\* The executor polls one of the suspended futures.
Poll ==
    /\ call.op = "idle"
    /\ \E i \in 1..Len(tasks) : PollOnce(tasks[i], i)

StateBlock(fl) == Bytes(fl, StatePartition.from, WRITE_SIZE)

Init ==
    /\ serialized \in BOOLEAN
    /\ \E blk \in SomeBlocks :
          flash = [a \in Addrs |->
                     IF a < StatePartition.from + WRITE_SIZE THEN blk[a - StatePartition.from + 1]
                     ELSE IF a < StatePartition.to THEN ERASE_VALUE
                     ELSE Image[a - DfuPartition.from + 1]]
    /\ build \in SomeBuilds
    /\ call = Idle
    /\ hist = IF serialized /\ ~AnyNot(StateBlock(flash), BOOT_MAGIC)
              THEN "fresh" ELSE "dirty"
    /\ prev = "none"
    /\ tasks = <<>>

Next ==
    \/ GetState
    \/ MarkBooted
    \/ MarkUpdated
    \/ VerifyAndMarkUpdated
    \/ WriteFirmware
    \/ PrepareUpdate
    \/ FirmwareLen
    \/ Poll
    \/ Return

Spec == Init /\ [][Next]_vars

\* the callers that serialize their calls on the device
InitSerial == Init /\ serialized
SerialSpec == InitSerial /\ [][Next]_vars

\* ------------------------------------------------------------------ claims
\* The component does no locking: the claims about what a call does to the
\* flash are claims about serialized calls and are checked under SerialSpec.
\* The claims that hold of overlapping calls as well are checked under Spec.
AllOf(buf, v) == ~AnyNot(buf, v)
\* the magic a transition is to store
Target(op) == IF op = "mark_booted" THEN BOOT_MAGIC ELSE SWAP_MAGIC
OtherMagic(op) == IF op = "mark_booted" THEN SWAP_MAGIC ELSE BOOT_MAGIC
Zeros   == Fill(WRITE_SIZE, 0)
Blank   == Fill(WRITE_SIZE, ERASE_VALUE)
Magic(m) == Fill(WRITE_SIZE, m)
\* what a get_state call without a flash fault reports on the flash fl
Reported(fl) == get_state(Ctx(fl, NoFault), WRITE_SIZE).value
IsStateOp(e) == e.part = "state"
\* the flash operations of the last call on the state partition
StateOps == SelectSeq(call.log, IsStateOp)
Modifies(e) == e.op \in {"write", "erase", "wipe"}
NoModification(log) == \A i \in 1..Len(log) : ~Modifies(log[i])
NoFailure(log) == \A i \in 1..Len(log) : log[i].ok
\* the call came back to its caller
Returned == call.outcome \in {"Ok", "Flash", "Signature"}
\* the k-th operation on the state partition took effect and was this write
WroteAt(k, data) ==
    /\ Len(StateOps) >= k
    /\ StateOps[k].op = "write" /\ StateOps[k].ok
    /\ StateOps[k].at = 0 /\ StateOps[k].data = data

\* C1 (as claimed): wherever power is lost in a mark_booted or mark_updated
\* call, or when the call completes, the first block of the state partition
\* holds its pre-transition contents, an all-zero block or the target magic,
\* and nothing else.
C1_Original ==
    (call.op \in {"mark_booted", "mark_updated"} /\ call.outcome \in {"lost", "Ok"})
    => StateBlock(flash) \in {StateBlock(call.pre), Zeros, Magic(Target(call.op))}

\* C1 (amended): wherever power is lost in a mark_booted or mark_updated call,
\* or when the call completes, the first block holds its pre-transition
\* contents, an all-zero block, an erased block (between the wipe and the
\* final write) or the target magic; it holds the other target's magic only
\* if it did before the call.
C1_CrashSafety ==
    (call.op \in {"mark_booted", "mark_updated"} /\ call.outcome \in {"lost", "Ok"})
    => /\ StateBlock(flash) \in
            {StateBlock(call.pre), Zeros, Blank, Magic(Target(call.op))}
       /\ (StateBlock(flash) = Magic(OtherMagic(call.op))
             => StateBlock(call.pre) = StateBlock(flash))

\* power is lost after the wipe of a mark_updated call that began on BOOT_MAGIC
C1_Witness ==
    /\ call.op = "mark_updated" /\ call.outcome = "lost"
    /\ StateBlock(call.pre) = Magic(BOOT_MAGIC)
    /\ Len(call.log) = 3 /\ call.log[3].op = "wipe"
    /\ StateBlock(flash) = Blank

\* C2: a call with target SWAP_MAGIC that starts on a block that is not all
\* SWAP_MAGIC leaves a block reading Swap only once its final write (the
\* fourth operation on the state partition) has taken effect; a mark_booted
\* call that starts on an all-SWAP_MAGIC block and whose zero write has taken
\* effect leaves a block that is not all SWAP_MAGIC, however the call ends.
C2_NeverWrongMagic ==
    /\ (/\ call.op \in {"mark_updated", "verify_and_mark_updated"}
        /\ AnyNot(StateBlock(call.pre), SWAP_MAGIC)
        /\ Reported(flash) = "Swap")
       => WroteAt(4, Magic(SWAP_MAGIC))
    /\ (/\ call.op = "mark_booted"
        /\ AllOf(StateBlock(call.pre), SWAP_MAGIC)
        /\ WroteAt(2, Zeros))
       => /\ AnyNot(StateBlock(flash), SWAP_MAGIC)
          /\ Reported(flash) = "Boot"

\* a mark_booted call on a Swap block returns a flash error after its zero write
C2_Witness ==
    /\ call.op = "mark_booted" /\ call.outcome = "Flash"
    /\ AllOf(StateBlock(call.pre), SWAP_MAGIC)
    /\ WroteAt(2, Zeros)
    /\ Len(call.log) = 3 /\ ~call.log[3].ok

\* C3: after a mark_booted, mark_updated or verify_and_mark_updated call
\* returns success, every byte of the first block of the state partition is
\* the call's target magic, whatever the block held before.
C3_SuccessStoresMagic ==
    (call.op \in Transitions /\ call.outcome = "Ok")
    => /\ StateBlock(flash) = Magic(Target(call.op))
       /\ StateBlock(flash) \in {Magic(BOOT_MAGIC), Magic(SWAP_MAGIC)}

\* a transition succeeds on a block that an interrupted one left half written
C3_Witness ==
    /\ call.op \in Transitions /\ call.outcome = "Ok"
    /\ StateBlock(call.pre) \notin {Magic(BOOT_MAGIC), Magic(SWAP_MAGIC), Zeros, Blank}
    /\ Len(StateOps) = 4
    /\ StateBlock(flash) = Magic(Target(call.op))

\* the verifier of a build with a backend rejects the arguments of the last
\* call: the key or the signature does not parse, or the signature is not
\* one by that key over the first update_len bytes of the dfu partition
HasBackend == build.features \cap {"ed25519-dalek", "ed25519-salty"} # {}
InCapacity(len) == len >= 0 /\ len <= firmware_len
Rejects(a, fl) ==
    \/ ~KeyParses(a.key)
    \/ ~SigParses(a.sig)
    \/ ~Verifies(a.key, Bytes(fl, DfuPartition.from, a.update_len), a.sig)

\* C4: a verify_and_mark_updated call whose signature check fails returns a
\* Signature error (unless a flash fault, a power loss or a panic ends it
\* first, and never success), issues no write and no erase, leaves the flash
\* as it was, and get_state reports what it reported before.
C4_RejectedNeverArmed ==
    /\ (/\ call.op = "verify_and_mark_updated" /\ HasBackend
        /\ InCapacity(call.args.update_len)
        /\ Rejects(call.args, call.pre))
       => /\ call.outcome # "Ok"
          /\ (Returned /\ NoFailure(call.log) => call.outcome = "Signature")
          /\ NoModification(call.log)
          /\ flash = call.pre
    /\ (call.op = "verify_and_mark_updated" /\ call.outcome = "Signature")
       => /\ call.verdict = "reject"
          /\ NoModification(call.log)
          /\ flash = call.pre
          /\ Reported(flash) = Reported(call.pre)

\* a signature by another key is rejected after the image was digested, on Boot
C4_Witness ==
    /\ call.op = "verify_and_mark_updated" /\ call.outcome = "Signature"
    /\ KeyParses(call.args.key) /\ SigParses(call.args.sig)
    /\ call.args.update_len = firmware_len - 1
    /\ Len(call.log) >= 2
    /\ StateBlock(call.pre) = Magic(BOOT_MAGIC)
    /\ Reported(flash) = "Boot"

\* the last call wrote SWAP_MAGIC into the first block of the state partition
ArmedSwap ==
    \E i \in 1..Len(StateOps) :
        /\ StateOps[i].op = "write" /\ StateOps[i].ok
        /\ StateOps[i].data = Magic(SWAP_MAGIC)

\* C5 (as claimed): in a build without a verification backend (neither
\* ed25519-dalek nor ed25519-salty), every verify_and_mark_updated call that
\* meets its preconditions (a write-sized buffer, update_len <= firmware_len)
\* and returns to its caller returns a Signature error, and no such call
\* writes SWAP_MAGIC to the state partition.
C5_NoBackendRejects ==
    (/\ call.op = "verify_and_mark_updated" /\ ~HasBackend
     /\ call.args.aligned = WRITE_SIZE
     /\ InCapacity(call.args.update_len))
    => /\ (Returned => call.outcome = "Signature")
       /\ ~ArmedSwap

\* C6: in a build with a backend, a verify_and_mark_updated call with a
\* write-sized buffer, update_len <= firmware_len and a key and signature the
\* verifier accepts over the first update_len bytes of the dfu partition,
\* in which no flash operation fails and power is not lost, returns success
\* after the verifier accepted exactly those bytes, and get_state then
\* reports Swap; whenever the verifier accepted and nothing failed, the call
\* returns success and get_state reports Swap.
C6_AcceptedIsArmed ==
    /\ (/\ call.op = "verify_and_mark_updated" /\ HasBackend
        /\ call.args.aligned = WRITE_SIZE
        /\ InCapacity(call.args.update_len)
        /\ ~Rejects(call.args, call.pre)
        /\ NoFailure(call.log) /\ call.outcome # "lost")
       => /\ call.outcome = "Ok"
          /\ call.verdict = "accept"
          /\ call.digest = Bytes(call.pre, DfuPartition.from, call.args.update_len)
          /\ Reported(flash) = "Swap"
    /\ (/\ call.op = "verify_and_mark_updated"
        /\ call.verdict = "accept"
        /\ NoFailure(call.log) /\ call.outcome # "lost")
       => /\ call.outcome = "Ok"
          /\ Reported(flash) = "Swap"

\* a signed image whose length is not a multiple of the buffer is accepted on Boot
C6_Witness ==
    /\ call.op = "verify_and_mark_updated" /\ call.outcome = "Ok"
    /\ HasBackend /\ call.verdict = "accept"
    /\ call.args.update_len = firmware_len - 1
    /\ Reported(call.pre) = "Boot"
    /\ Reported(flash) = "Swap"
    /\ ArmedSwap

\* C7: a mark_booted (mark_updated) call that directly follows a successful
\* mark_booted (mark_updated) call issues no write and no erase and leaves the
\* flash as the first call left it; when no flash operation fails it returns
\* success after a single read of the first block of the state partition.
C7_Idempotent ==
    (call.repeat /\ call.op \in {"mark_booted", "mark_updated"})
    => /\ NoModification(call.log)
       /\ flash = call.pre
       /\ (Returned /\ NoFailure(call.log))
            => /\ call.outcome = "Ok"
               /\ Len(call.log) = 1
               /\ call.log[1].op = "read" /\ call.log[1].part = "state"
               /\ call.log[1].at = 0 /\ call.log[1].len = WRITE_SIZE

\* mark_updated succeeds a second time in a row, with one read
C7_Witness ==
    /\ call.repeat /\ call.op = "mark_updated" /\ call.outcome = "Ok"
    /\ Len(call.log) = 1
    /\ StateBlock(flash) = Magic(SWAP_MAGIC)

\* the boot state after the successful transitions made so far
Expected == IF hist = "updated" THEN "Swap" ELSE "Boot"

\* C8: on a state partition whose first block began as BOOT_MAGIC and on which
\* only successful mark_booted and mark_updated calls (and get_state calls)
\* were made, get_state with a write-sized buffer reports, after each of the
\* calls, Swap if and only if the most recent successful transition was
\* mark_updated, and Boot otherwise.
C8_RoundTrip ==
    (hist # "dirty" /\ tasks = <<>>)
    => /\ Reported(flash) = Expected
       /\ (/\ call.op = "get_state" /\ call.outcome = "Ok"
           /\ call.args.aligned = WRITE_SIZE)
          => call.value = Expected

\* mark_booted succeeds on the Swap block that a mark_updated call stored
C8_Witness ==
    /\ hist = "booted"
    /\ call.op = "mark_booted" /\ call.outcome = "Ok"
    /\ StateBlock(call.pre) = Magic(SWAP_MAGIC)
    /\ Reported(call.pre) = "Swap"
    /\ Reported(flash) = "Boot"

\* the last call was a transition that returned an error to its caller
Failed == call.op \in Transitions /\ call.outcome \in {"Flash", "Signature"}

\* C9 (as claimed): whenever mark_booted, mark_updated or
\* verify_and_mark_updated returns an error, get_state reports the same boot
\* state as before the call.
C9_Original ==
    Failed => Reported(flash) = Reported(call.pre)

\* C9 (amended): on a flash device whose failed operation changes nothing,
\* when a transition returns an error, get_state reports the same boot state
\* as before the call, except after a mark_booted call on a Swap block whose
\* zero write took effect: then it reports Boot. A failed call never makes
\* get_state report Swap, and a Signature error leaves the flash unchanged.
C9_AllOrNothing ==
    Failed
    => /\ (Reported(flash) # Reported(call.pre))
            => /\ call.op = "mark_booted"
               /\ Reported(call.pre) = "Swap" /\ Reported(flash) = "Boot"
               /\ WroteAt(2, Zeros)
       /\ (call.op # "mark_booted" \/ ~WroteAt(2, Zeros) \/ Reported(call.pre) = "Boot")
            => Reported(flash) = Reported(call.pre)
       /\ (call.outcome = "Signature" => flash = call.pre)

\* the final write of a mark_updated call fails on a Boot block: Boot is kept
C9_Witness ==
    /\ Failed /\ call.op = "mark_updated"
    /\ StateBlock(call.pre) = Magic(BOOT_MAGIC)
    /\ Len(call.log) = 4 /\ ~call.log[4].ok
    /\ StateBlock(flash) = Blank
    /\ Reported(flash) = "Boot"

\* C10 (as claimed): a call in one form and the same call in the other form,
\* on the same flash contents with the same flash faults, issue the same
\* sequence of flash operations, end in the same flash contents and have the
\* same outcome (result, error or assertion failure), the capacity
\* precondition of verification included.
C10_FormsEquivalent ==
    (call.op # "idle")
    => call.twin = [flash |-> flash, outcome |-> call.outcome,
                    value |-> call.value, log |-> call.log]

\* the range [offset, offset + len(data)) of a write_firmware call reaches
\* beyond the dfu partition
BeyondDfu(a) == ~(a.offset >= 0 /\ a.offset + Len(a.data) <= firmware_len)
\* no flash operation of the last call took effect
NothingDone == \A i \in 1..Len(call.log) : ~call.log[i].ok
\* the last call issued one flash operation, a rejected erase of its range
FailedAtErase ==
    /\ Len(call.log) = 1
    /\ call.log[1].op = "erase" /\ call.log[1].part = "dfu" /\ ~call.log[1].ok
    /\ call.log[1].at = call.args.offset
    /\ call.log[1].len = Len(call.args.data)

\* C11 (as claimed): a write_firmware call (with at least one erase unit of
\* data) whose range reaches beyond the dfu partition returns a Flash error
\* from its erase, unless power is lost first; the flash is unchanged and no
\* operation takes effect.
C11_Original ==
    (/\ call.op = "write_firmware"
     /\ Len(call.args.data) >= ERASE_SIZE
     /\ BeyondDfu(call.args))
    => /\ call.outcome \in {"Flash", "lost"}
       /\ (call.outcome = "Flash" => FailedAtErase)
       /\ NothingDone
       /\ flash = call.pre

\* C11 (amended): such a call never succeeds: it returns a Flash error from
\* its erase, or, when offset + len(data) overflows usize in a build with
\* overflow checks, panics before any flash operation; in every case the
\* flash is unchanged and no operation takes effect.
C11_CapacityOfStaging ==
    (/\ call.op = "write_firmware"
     /\ Len(call.args.data) >= ERASE_SIZE
     /\ BeyondDfu(call.args))
    => /\ call.outcome \in {"Flash", "panic", "lost"}
       /\ (call.outcome = "Flash" => FailedAtErase)
       /\ (call.outcome = "panic"
             => /\ build.overflow_checks
                /\ UAddOverflows(call.args.offset, Len(call.args.data))
                /\ call.log = <<>>)
       /\ ((~build.overflow_checks \/ ~UAddOverflows(call.args.offset, Len(call.args.data)))
             => call.outcome # "panic")
       /\ NothingDone
       /\ flash = call.pre

\* data of two erase units at the last erase unit is refused by the erase
C11_Witness ==
    /\ call.op = "write_firmware" /\ call.outcome = "Flash"
    /\ call.args.offset = firmware_len - ERASE_SIZE
    /\ Len(call.args.data) = 2 * ERASE_SIZE
    /\ FailedAtErase
    /\ flash = call.pre

\* the first n bytes of the state partition
StateBytes(fl, n) == Bytes(fl, StatePartition.from, n)

\* C12: a get_state call issues one read of the first len(buffer) bytes of
\* the state partition and nothing else; when the read succeeds it returns
\* Swap if every one of those bytes is SWAP_MAGIC and Boot otherwise; when the
\* read fails it returns a Flash error and no state.
C12_GetState ==
    (call.op = "get_state")
    => /\ call.outcome \in {"Ok", "Flash", "lost"}
       /\ flash = call.pre
       /\ (call.outcome # "lost")
            => /\ Len(call.log) = 1
               /\ call.log[1].op = "read" /\ call.log[1].part = "state"
               /\ call.log[1].at = 0 /\ call.log[1].len = call.args.aligned
       /\ (call.outcome = "Ok")
            => /\ call.log[1].ok
               /\ call.value = IF AllOf(StateBytes(call.pre, call.args.aligned), SWAP_MAGIC)
                               THEN "Swap" ELSE "Boot"
       /\ (call.outcome = "Flash")
            => /\ ~call.log[1].ok
               /\ call.value = "none"

\* a buffer longer than the block reads an erased byte behind SWAP_MAGIC: Boot
C12_Witness ==
    /\ call.op = "get_state" /\ call.outcome = "Ok"
    /\ call.form = "blocking"
    /\ call.args.aligned = WRITE_SIZE + 1
    /\ StateBlock(call.pre) = Magic(SWAP_MAGIC)
    /\ call.value = "Boot"

\* the flash operations of a transition to the magic m, all taking effect
StateRead == [op |-> "read", part |-> "state", at |-> 0, len |-> WRITE_SIZE,
              data |-> <<>>, ok |-> TRUE]
StateWrite(data) == [op |-> "write", part |-> "state", at |-> 0, len |-> WRITE_SIZE,
                     data |-> data, ok |-> TRUE]
StateWipe == [op |-> "wipe", part |-> "state", at |-> 0,
              len |-> PartitionLen(StatePartition), data |-> <<>>, ok |-> TRUE]
Sequence(m) == <<StateRead, StateWrite(Zeros), StateWipe, StateWrite(Magic(m))>>
\* the operations of a log, whether they took effect or not
Issued(log) == [i \in 1..Len(log) |-> [log[i] EXCEPT !.ok = TRUE]]
IsPrefix(s, t) == Len(s) <= Len(t) /\ s = SubSeq(t, 1, Len(s))
\* the operations on the state partition are the last ones of the call
StateOpsLast ==
    \A i, j \in 1..Len(call.log) :
        (i < j /\ call.log[i].part = "state") => call.log[j].part = "state"

\* C13: in a transition that starts on a block that is not the target magic,
\* the operations on the state partition are, in this order and with no
\* other flash operation in between, the read of the first block, the write
\* of a zero block at offset 0, the wipe of the state partition and the write
\* of the target magic at offset 0: all four when the call succeeds, and the
\* first ones of them when a fault ends the call.
C13_Ordering ==
    (/\ call.op \in Transitions
     /\ AnyNot(StateBlock(call.pre), Target(call.op)))
    => /\ IsPrefix(Issued(StateOps), Sequence(Target(call.op)))
       /\ StateOpsLast
       /\ (call.op # "verify_and_mark_updated" => StateOps = call.log)
       /\ (call.outcome = "Ok" => StateOps = Sequence(Target(call.op)))
       /\ (call.outcome = "Flash" /\ StateOps # <<>>
             => ~StateOps[Len(StateOps)].ok)

\* a verified update on an erased block: the four operations follow the reads
C13_Witness ==
    /\ call.op = "verify_and_mark_updated" /\ call.outcome = "Ok"
    /\ call.form = "blocking"
    /\ StateBlock(call.pre) = Blank
    /\ Len(call.log) > 4
    /\ StateOps = Sequence(SWAP_MAGIC)

\* C14: in every operation, a flash operation that fails is the last one the
\* call issues (no retry, no later operation) and the call returns a Flash
\* error; a call returns a Flash error only when its last flash operation
\* failed.
C14_FlashErrorPropagates ==
    (call.op # "idle")
    => /\ \A i \in 1..Len(call.log) :
             ~call.log[i].ok => (i = Len(call.log) /\ call.outcome = "Flash")
       /\ (call.outcome = "Flash"
             => call.log # <<>> /\ ~call.log[Len(call.log)].ok)

\* the second read of the image fails during verification: no transition
C14_Witness ==
    /\ call.op = "verify_and_mark_updated" /\ call.outcome = "Flash"
    /\ InCapacity(call.args.update_len)
    /\ Len(call.log) = 2
    /\ call.log[1].ok /\ call.log[2].op = "read" /\ call.log[2].part = "dfu"
    /\ ~call.log[2].ok
    /\ StateOps = <<>>
    /\ flash = call.pre

IsDfuOp(e) == e.part = "dfu"
\* the flash operations of the last call on the dfu partition
DfuOps == SelectSeq(call.log, IsDfuOp)
\* the reads at offsets 0, B, 2B, ... below update_len
RECURSIVE StridesFrom(_, _, _)
StridesFrom(offset, update_len, B) ==
    IF offset >= update_len THEN <<>>
    ELSE <<[op |-> "read", part |-> "dfu", at |-> offset, len |-> B,
            data |-> <<>>, ok |-> TRUE]>> \o StridesFrom(offset + B, update_len, B)
Strides == StridesFrom(0, call.args.update_len, call.args.aligned)
CeilDiv(a, b) == (a + b - 1) \div b
RECURSIVE Repeat(_, _)
Repeat(s, k) == IF k = 0 THEN <<>> ELSE s \o Repeat(s, k - 1)
NumBackends == Cardinality(build.features \cap {"ed25519-dalek", "ed25519-salty"})
\* a verification call that meets its preconditions, with a key and a
\* signature that parse
Streams ==
    /\ call.op = "verify_and_mark_updated" /\ HasBackend
    /\ call.args.aligned = WRITE_SIZE
    /\ InCapacity(call.args.update_len)
    /\ KeyParses(call.args.key) /\ SigParses(call.args.sig)
\* the verifier came to its verdict
Verdict == call.outcome \in {"Ok", "Signature"} /\ NoFailure(call.log)

\* C15 (as claimed): such a call reads the dfu partition at offsets 0, B,
\* 2B, ... below update_len in ascending order, ceil(update_len / B) reads in
\* all, and the digest receives exactly the first update_len bytes of the dfu
\* partition, in order.
C15_Original ==
    (Streams /\ Verdict)
    => /\ DfuOps = Strides
       /\ Len(DfuOps) = CeilDiv(call.args.update_len, call.args.aligned)
       /\ call.digest = Bytes(call.pre, DfuPartition.from, call.args.update_len)

\* C15 (amended): the call makes that pass over the dfu partition once for
\* each compiled-in backend that runs (every one of them when the call
\* succeeds): each pass reads at offsets 0, B, 2B, ... below update_len in
\* ascending order, ceil(update_len / B) reads, and its digest receives
\* exactly the first update_len bytes of the dfu partition, in order; a
\* fault ends the call within such a pass.
C15_StreamingDigest ==
    Streams
    => /\ Len(Strides) = CeilDiv(call.args.update_len, call.args.aligned)
       /\ IsPrefix(Issued(DfuOps), Repeat(Strides, NumBackends))
       /\ Verdict
            => /\ \E k \in 1..NumBackends :
                     /\ DfuOps = Repeat(Strides, k)
                     /\ (call.outcome = "Ok" => k = NumBackends)
               /\ call.digest = Bytes(call.pre, DfuPartition.from, call.args.update_len)

\* a build with both backends accepts an image that ends inside a stride
C15_Witness ==
    /\ Streams /\ call.outcome = "Ok"
    /\ NumBackends = 2
    /\ call.args.update_len = firmware_len - 1
    /\ Len(DfuOps) = 2 * CeilDiv(firmware_len - 1, WRITE_SIZE)
    /\ call.digest = Prefix(Image, firmware_len - 1)

\* the last call ended in a panic before any flash operation
FailedFast == call.outcome = "panic" /\ call.log = <<>> /\ flash = call.pre

\* C16 (as claimed): a mark_booted, mark_updated or verify_and_mark_updated
\* call whose buffer length is not the write granularity, and a
\* verify_and_mark_updated call whose update_len exceeds the length of the
\* dfu partition, panics before any flash operation and leaves the flash
\* unchanged.
C16_FailFast ==
    /\ (call.op \in Transitions /\ call.args.aligned # WRITE_SIZE) => FailedFast
    /\ (/\ call.op = "verify_and_mark_updated"
        /\ ~ULe(call.args.update_len, firmware_len))
       => FailedFast

\* the i-th chunk of block_size bytes of the data of a write_firmware call
Chunk(a, i) ==
    SubSeq(a.data, (i - 1) * a.block_size + 1,
           IF i * a.block_size < Len(a.data) THEN i * a.block_size ELSE Len(a.data))

\* C17: a write_firmware call with less than one erase unit of data panics
\* before any flash operation.  Otherwise the first flash operation it
\* issues is the erase of exactly [offset, offset + len(data)) of the dfu
\* partition; every later operation is a write to the dfu partition, issued
\* only after that erase took effect, of the next block_size bytes of the
\* data at the next offset; a successful call has written all the data.
C17_EraseBeforeWrite ==
    (call.op = "write_firmware")
    => /\ (Len(call.args.data) < ERASE_SIZE) => FailedFast
       /\ (Len(call.args.data) >= ERASE_SIZE)
            => /\ (call.log = <<>> => call.outcome \in {"lost", "panic"})
               /\ (call.log # <<>>)
                    => /\ call.log[1].op = "erase" /\ call.log[1].part = "dfu"
                       /\ call.log[1].at = call.args.offset
                       /\ call.log[1].len = Len(call.args.data)
               /\ \A i \in 2..Len(call.log) :
                     /\ call.log[1].ok
                     /\ call.log[i].op = "write" /\ call.log[i].part = "dfu"
                     /\ call.log[i].at = call.args.offset + (i - 2) * call.args.block_size
                     /\ call.log[i].data = Chunk(call.args, i - 1)
               /\ (call.outcome = "Ok")
                    => /\ Len(call.log) = 1 + CeilDiv(Len(call.args.data), call.args.block_size)
                       /\ Bytes(flash, DfuPartition.from + call.args.offset,
                                Len(call.args.data)) = call.args.data

\* one erase unit of data is erased, then written in write-sized blocks
C17_Witness ==
    /\ call.op = "write_firmware" /\ call.outcome = "Ok"
    /\ Len(call.args.data) = ERASE_SIZE
    /\ call.args.block_size = WRITE_SIZE
    /\ Len(call.log) = 1 + ERASE_SIZE \div WRITE_SIZE
    /\ call.log[1].op = "erase" /\ call.log[2].op = "write"
    /\ flash # call.pre

\* C18: a prepare_update call issues exactly one flash operation, the wipe
\* of the whole dfu partition, and no write; when the wipe takes effect the
\* call returns a firmware writer for the dfu partition, which is then
\* erased; when the wipe fails the call returns a Flash error and no writer,
\* and the flash is unchanged.
C18_PrepareUpdate ==
    (call.op = "prepare_update")
    => /\ call.outcome \in {"Ok", "Flash", "lost"}
       /\ (call.outcome = "lost" => call.log = <<>> /\ flash = call.pre)
       /\ (call.outcome # "lost")
            => /\ Len(call.log) = 1
               /\ call.log[1].op = "wipe" /\ call.log[1].part = "dfu"
               /\ call.log[1].at = 0 /\ call.log[1].len = firmware_len
       /\ (call.outcome = "Ok")
            => /\ call.log[1].ok
               /\ call.value = "FirmwareWriter(dfu)"
               /\ flash = Erased(call.pre, DfuPartition.from, DfuPartition.to)
       /\ (call.outcome = "Flash")
            => /\ ~call.log[1].ok
               /\ call.value = "none"
               /\ flash = call.pre

\* the wipe of a staged image fails: a Flash error, the image stays
C18_Witness ==
    /\ call.op = "prepare_update" /\ call.outcome = "Flash"
    /\ call.form = "blocking"
    /\ Len(call.log) = 1 /\ ~call.log[1].ok
    /\ Bytes(flash, DfuPartition.from, firmware_len) = Image
    /\ call.value = "none"

\* the whole state partition
StateArea(fl) == StateBytes(fl, PartitionLen(StatePartition))

\* C19: get_state and firmware_len issue no write and no erase and leave the
\* flash unchanged (firmware_len issues no flash operation at all and returns
\* the length of the dfu partition); write_firmware and prepare_update issue
\* no operation on the state partition and leave every byte of it unchanged;
\* so only the three transitions change what get_state reports.
C19_Frame ==
    /\ (call.op \in {"get_state", "firmware_len"})
       => /\ NoModification(call.log)
          /\ flash = call.pre
    /\ (call.op = "firmware_len")
       => /\ call.log = <<>> /\ call.outcome = "Ok"
          /\ call.value = PartitionLen(DfuPartition)
    /\ (call.op \in {"write_firmware", "prepare_update"})
       => /\ StateOps = <<>>
          /\ StateArea(flash) = StateArea(call.pre)
    /\ (call.op \notin Transitions \cup {"idle"})
       => Reported(flash) = Reported(call.pre)

\* an image is staged while the state is Swap: the dfu partition changes,
\* the state does not
C19_Witness ==
    /\ call.op = "write_firmware" /\ call.outcome = "Ok"
    /\ flash # call.pre
    /\ StateArea(flash) = StateArea(call.pre)
    /\ Reported(call.pre) = "Swap" /\ Reported(flash) = "Swap"

\* C20: in a verify_and_mark_updated call with a buffer of the write
\* granularity B and update_len <= firmware_len, every read of the dfu
\* partition covers B bytes [offset, offset + B) inside [0, firmware_len),
\* the last stride of an update_len that is not a multiple of B included,
\* and no other partition is read but for the first block of the state
\* partition.
C20_ReadsInsideDfu ==
    (/\ call.op = "verify_and_mark_updated"
     /\ call.args.aligned = WRITE_SIZE
     /\ InCapacity(call.args.update_len))
    => \A i \in 1..Len(call.log) :
          (call.log[i].op = "read")
          => /\ call.log[i].len = WRITE_SIZE
             /\ call.log[i].at >= 0
             /\ (call.log[i].part = "dfu"
                   => /\ call.log[i].at + call.log[i].len <= firmware_len
                      /\ call.log[i].at < call.args.update_len)
             /\ (call.log[i].part = "state" => call.log[i].at = 0)

\* the last stride of an image one byte short of the partition ends at its end
C20_Witness ==
    /\ call.op = "verify_and_mark_updated" /\ NumBackends = 1
    /\ call.args.aligned = WRITE_SIZE
    /\ call.args.update_len = firmware_len - 1
    /\ NoFailure(call.log)
    /\ DfuOps # <<>>
    /\ DfuOps[Len(DfuOps)].op = "read"
    /\ DfuOps[Len(DfuOps)].at + WRITE_SIZE = firmware_len

====
